---- MODULE Spec2Model ----
(***************************************************************************)
(* Model of pygmt/src/grdmask.py: the -N option encoder _alias_option_N    *)
(* and the grdmask wrapper around the GMT module call.                     *)
(*                                                                         *)
(* Python strings are sequences of one-character strings, so that str(),   *)
(* f-string formatting, "/".join and str.upper are computed, and a token   *)
(* can be split into its fields again.  A Python value is a record         *)
(*   [t |-> type tag, n |-> number, s |-> characters, items |-> elements]. *)
(***************************************************************************)
EXTENDS Integers, Sequences, FiniteSets, TLC

\* ---------------------------------------------------------------- bounds
\* Integer arguments range over -MaxNum .. MaxNum.
MaxNum == 2

\* ------------------------------------------------------- Python values
PyInt(k)   == [t |-> "int",   n |-> k, s |-> <<>>, items |-> <<>>]
\* float with the integral value k (0.0, 1.0): equal to the int k, printed "k.0"
PyFloat(k) == [t |-> "float", n |-> k, s |-> <<>>, items |-> <<>>]
\* float("nan") / np.nan: unequal to everything, printed "nan"
PyNaN      == [t |-> "nan",   n |-> 0, s |-> <<>>, items |-> <<>>]
PyStr(cs)  == [t |-> "str",   n |-> 0, s |-> cs,   items |-> <<>>]
PyList(xs) == [t |-> "list",  n |-> 0, s |-> <<>>, items |-> xs]
PyNone     == [t |-> "None",  n |-> 0, s |-> <<>>, items |-> <<>>]

\* The two recognised symbolic tokens, and strings that are not recognised.
S_z  == <<"z">>
S_id == <<"i", "d">>
SymbolicStrs == {S_z, S_id}
OtherStrs == {<<"Z">>, <<"p">>, <<"I", "D">>, <<"N", "a", "N">>}

NumVals == {PyInt(k) : k \in (0 - MaxNum) .. MaxNum}
             \cup {PyFloat(0), PyFloat(1), PyNaN}
SymbolicVals == {PyStr(cs) : cs \in SymbolicStrs}
OtherStrVals == {PyStr(cs) : cs \in OtherStrs}
\* float | Literal["z", "id"], plus the strings the type checker would refuse
\* but the interpreter passes through.
MaskVals == NumVals \cup SymbolicVals \cup OtherStrVals

\* ------------------------------------------------- Python primitives
Digits == <<"0", "1", "2", "3", "4", "5", "6", "7", "8", "9">>

RECURSIVE NatStr(_)
NatStr(k) == IF k < 10 THEN <<Digits[k + 1]>>
             ELSE NatStr(k \div 10) \o <<Digits[(k % 10) + 1]>>

IntStr(k) == IF k < 0 THEN <<"-">> \o NatStr(0 - k) ELSE NatStr(k)

\* str(v), which is also what f"{v}" renders for these types
Str(v) == CASE v.t = "int"   -> IntStr(v.n)
            [] v.t = "float" -> IntStr(v.n) \o <<".", "0">>
            [] v.t = "nan"   -> <<"n", "a", "n">>
            [] v.t = "str"   -> v.s
            [] v.t = "None"  -> <<"N", "o", "n", "e">>
            [] OTHER         -> <<"[", "]">>

\* a == b
PyEq(a, b) ==
    CASE a.t \in {"int", "float"} /\ b.t \in {"int", "float"} -> a.n = b.n
      [] a.t = "str" /\ b.t = "str" -> a.s = b.s
      [] a.t = "None" /\ b.t = "None" -> TRUE
      [] OTHER -> FALSE

\* str.upper, on the letters that occur
UpperChar(c) == CASE c = "z" -> "Z"
                  [] c = "p" -> "P"
                  [] c = "i" -> "I"
                  [] c = "d" -> "D"
                  [] c = "n" -> "N"
                  [] c = "a" -> "A"
                  [] OTHER   -> c

Upper(cs) == [k \in 1 .. Len(cs) |-> UpperChar(cs[k])]

\* sep.join(strs)
RECURSIVE Join(_, _)
Join(strs, sep) == IF Len(strs) = 0 THEN <<>>
                   ELSE IF Len(strs) = 1 THEN strs[1]
                   ELSE strs[1] \o sep \o Join(Tail(strs), sep)

\* cs.split(c); used to read the fields of a token back
RECURSIVE Split(_, _)
Split(cs, c) ==
    IF Len(cs) = 0 THEN << <<>> >>
    ELSE LET rest == Split(Tail(cs), c)
         IN  IF Head(cs) = c THEN << <<>> >> \o rest
             ELSE << <<Head(cs)>> \o rest[1] >> \o Tail(rest)

\* ------------------------------------------------ pygmt.alias.Alias
\* Alias._value: a sequence is rendered element by element and joined with
\* sep; any other value is rendered by str().
Alias_to_string(value, sep) ==
    IF value.t = "list"
    THEN Join([k \in 1 .. Len(value.items) |-> Str(value.items[k])], sep)
    ELSE Str(value)

\* Alias(value, name=..., sep=..., size=...); sep = <<>> and size = 0 stand
\* for the arguments left at None.
Alias(value, name, sep, size) ==
    [value |-> value, name |-> name, sep |-> sep, size |-> size,
     _value |-> Alias_to_string(value, sep)]

NoAlias == [value |-> PyNone, name |-> "", sep |-> <<>>, size |-> 0,
            _value |-> <<>>]

\* ------------------------------------------------- _alias_option_N
special_modes == [k \in SymbolicStrs |-> IF k = S_z THEN <<"z">> ELSE <<"p">>]

\* x in special_modes
in_special_modes(x) == x.t = "str" /\ x.s \in DOMAIN special_modes

inside_is_special(inside) == in_special_modes(inside)

\* variant: isinstance(edge, str) in place of the dictionary lookup
edge_is_special_anystr(edge) == edge.t = "str"

edge_is_special(edge) == in_special_modes(edge)

\* variant: the test "inside != edge" left out
invalid_combination_any(edge, inside) ==
    inside_is_special(inside) /\ edge_is_special(edge)

\* variant: a special edge is required to come with the same special inside
invalid_combination_edge_only(edge, inside) ==
    edge_is_special(edge) /\ ~PyEq(inside, edge)

\* the condition of the "Validate combinations" statement
invalid_combination(edge, inside) ==
    inside_is_special(inside) /\ edge_is_special(edge) /\ ~PyEq(inside, edge)

\* variant: the upper() step left out
mode_char_lower(edge, inside) == special_modes[inside.s]

\* mode_char after the optional upper(); only evaluated for a special inside
mode_char(edge, inside) ==
    LET mc == special_modes[inside.s]
    IN  IF PyEq(edge, inside) THEN Upper(mc) ELSE mc

\* variant: outside appended without the test against 0
n_value_always(outside, mc) == mc \o <<"/">> \o Str(outside)

n_value(outside, mc) ==
    IF ~PyEq(outside, PyInt(0)) THEN mc \o <<"/">> \o Str(outside) ELSE mc

\* variant: edge and inside in the wrong order
standard_alias_swapped(outside, edge, inside) ==
    Alias(PyList(<<outside, inside, edge>>), "mask_values", <<"/">>, 3)

\* the Alias of the standard mode
standard_alias(outside, edge, inside) ==
    Alias(PyList(<<outside, edge, inside>>), "mask_values", <<"/">>, 3)

\* Outcome of a call: the exception raised ("none" if it returned) and the
\* Alias returned (NoAlias if it raised).
_alias_option_N(outside, edge, inside) ==
    IF invalid_combination(edge, inside)
    THEN [exc |-> "GMTParameterError", alias |-> NoAlias]
    ELSE IF inside_is_special(inside)
    THEN [exc |-> "none",
          alias |-> Alias(PyStr(n_value(outside, mode_char(edge, inside))),
                          "mask_values", <<>>, 0)]
    ELSE [exc |-> "none", alias |-> standard_alias(outside, edge, inside)]

NotCalled == [exc |-> "not called", alias |-> NoAlias]

\* ------------------------------------------------------------ state
VARIABLES
    args,       \* the arguments of the call under way
    pc,         \* position in the call
    mask,       \* outcome of the _alias_option_N call, NotCalled before it
    aliasdict,  \* the option strings I, N, R, G assembled by grdmask
    events,     \* what the call has done so far, in order
    session,    \* "none", "open" or "closed"
    written,    \* where call_module wrote the grid, <<>> if nowhere
    outcome     \* how the call ended

vars == <<args, pc, mask, aliasdict, events, session, written, outcome>>

OutgridName == <<"m", ".", "n", "c">>
VirtualName == <<"@", "G">>

Args == [spacing : {PyNone, PyInt(1)},
         region  : {PyNone, PyList(<<PyInt(0), PyInt(1), PyInt(0), PyInt(1)>>)},
         outgrid : {PyNone, PyStr(OutgridName)},
         outside : MaskVals,
         edge    : MaskVals,
         inside  : MaskVals]

NoDict == [I |-> <<>>, N |-> <<>>, R |-> <<>>, G |-> <<>>]
Running == [exc |-> "none", ret |-> "running"]

Init ==
    /\ args \in Args
    /\ pc = "start"
    /\ mask = NotCalled
    /\ aliasdict = NoDict
    /\ events = <<>>
    /\ session = "none"
    /\ written = <<>>
    /\ outcome = Running

\* A direct call _alias_option_N(outside, edge, inside), as in the doctests.
call_alias_option_N ==
    /\ pc = "start"
    /\ mask' = _alias_option_N(args.outside, args.edge, args.inside)
    /\ events' = Append(events, "encode")
    /\ outcome' = [exc |-> mask'.exc, ret |-> IF mask'.exc = "none" THEN "Alias" ELSE "raised"]
    /\ pc' = "encoded"
    /\ UNCHANGED <<args, aliasdict, session, written>>

\* variant: "and" in place of "or"
missing_required_both(a) == a.spacing = PyNone /\ a.region = PyNone

\* grdmask: if spacing is None or region is None: raise GMTParameterError
missing_required(a) == a.spacing = PyNone \/ a.region = PyNone

grdmask_check ==
    /\ pc = "start"
    /\ IF missing_required(args)
       THEN /\ outcome' = [exc |-> "GMTParameterError", ret |-> "raised"]
            /\ pc' = "raised"
       ELSE /\ outcome' = outcome
            /\ pc' = "aliases"
    /\ UNCHANGED <<args, mask, aliasdict, events, session, written>>

\* grdmask: AliasSystem(I=..., N=_alias_option_N(...)).add_common(R=..., V=...)
grdmask_aliases ==
    /\ pc = "aliases"
    /\ mask' = _alias_option_N(args.outside, args.edge, args.inside)
    /\ events' = Append(events, "encode")
    /\ IF mask'.exc # "none"
       THEN /\ outcome' = [exc |-> mask'.exc, ret |-> "raised"]
            /\ pc' = "raised"
            /\ aliasdict' = aliasdict
       ELSE /\ outcome' = outcome
            /\ pc' = "session"
            /\ aliasdict' = [I |-> Alias(args.spacing, "spacing", <<"/">>, 2)._value,
                             N |-> mask'.alias._value,
                             R |-> Alias(args.region, "region", <<"/">>, 4)._value,
                             G |-> <<>>]
    /\ UNCHANGED <<args, session, written>>

\* Session.virtualfile_out(kind="grid", fname=outgrid): the file name itself
\* when one is given, else the name of a virtual file
virtualfile_out(fname) == IF fname = PyNone THEN VirtualName ELSE fname.s

\* grdmask: with Session() as lib, the two virtual files, aliasdict["G"]
grdmask_session ==
    /\ pc = "session"
    /\ session' = "open"
    /\ events' = Append(events, "session")
    /\ aliasdict' = [aliasdict EXCEPT !.G = virtualfile_out(args.outgrid)]
    /\ pc' = "module"
    /\ UNCHANGED <<args, mask, written, outcome>>

\* grdmask: lib.call_module("grdmask", ...); the module writes the grid to
\* the -G argument, or fails with a non-zero status, which call_module
\* raises as GMTCLibError while the with statements close the session.
grdmask_call_module ==
    /\ pc = "module"
    /\ events' = Append(events, "call_module")
    /\ \E status \in {0, 1} :
          IF status = 0
          THEN /\ written' = aliasdict.G
               /\ pc' = "return"
               /\ UNCHANGED <<session, outcome>>
          ELSE /\ session' = "closed"
               /\ outcome' = [exc |-> "GMTCLibError", ret |-> "raised"]
               /\ pc' = "raised"
               /\ UNCHANGED written
    /\ UNCHANGED <<args, mask, aliasdict>>

\* Session.virtualfile_to_raster(vfname, outgrid): None when the grid went to
\* a file, else the grid loaded as an xarray.DataArray
virtualfile_to_raster(vfname, outgrid) ==
    IF outgrid # PyNone THEN "None" ELSE "DataArray"

\* variant: outgrid not passed on to virtualfile_to_raster
grdmask_return_without_outgrid ==
    /\ pc = "return"
    /\ outcome' = [exc |-> "none",
                   ret |-> virtualfile_to_raster(aliasdict.G, PyNone)]
    /\ session' = "closed"
    /\ pc' = "returned"
    /\ UNCHANGED <<args, mask, aliasdict, events, written>>

\* grdmask: return lib.virtualfile_to_raster(vfname=voutgrd, outgrid=outgrid)
grdmask_return ==
    /\ pc = "return"
    /\ outcome' = [exc |-> "none",
                   ret |-> virtualfile_to_raster(aliasdict.G, args.outgrid)]
    /\ session' = "closed"
    /\ pc' = "returned"
    /\ UNCHANGED <<args, mask, aliasdict, events, written>>

Next ==
    \/ call_alias_option_N
    \/ grdmask_check
    \/ grdmask_aliases
    \/ grdmask_session
    \/ grdmask_call_module
    \/ grdmask_return

Spec == Init /\ [][Next]_vars

\* ================================================================ claims
\* What a claim can observe of the _alias_option_N call of the current run.
Encoded  == mask.exc # "not called"
Failed   == mask.exc = "GMTParameterError"
Returned == mask.exc = "none"
Token    == mask.alias._value
Fields   == Split(Token, "/")
Tag      == Fields[1]
Symbolic(v) == v \in SymbolicVals
NumericZero(v) == v.t \in {"int", "float"} /\ v.n = 0
\* the tag the documentation gives: z or p, uppercase when edge is the same mode
DocTag == IF args.inside.s = S_z
          THEN (IF args.edge = args.inside THEN <<"Z">> ELSE <<"z">>)
          ELSE (IF args.edge = args.inside THEN <<"P">> ELSE <<"p">>)

\* C1: _alias_option_N fails with GMTParameterError exactly when edge and
\* inside are both symbolic and differ, whatever outside is; a failing call
\* has built no Alias, and every other call returns an Alias with a token.
C1_FailsExactlyOnMismatch ==
    Encoded =>
        /\ Failed <=> (Symbolic(args.edge) /\ Symbolic(args.inside)
                       /\ args.edge # args.inside)
        /\ Failed => mask.alias = NoAlias
        /\ ~Failed => (Returned /\ mask.alias # NoAlias /\ Len(Token) > 0)

C1_Witness ==
    /\ pc = "encoded" /\ Failed
    /\ args.edge = PyStr(S_z) /\ args.inside = PyStr(S_id)
    /\ args.outside = PyInt(1)

\* C2: for a symbolic inside and a call that returns, the first field of the
\* token is z for "z" and p for "id", uppercase iff edge equals inside.
C2_ModeTag ==
    (Encoded /\ Returned /\ Symbolic(args.inside)) => Tag = DocTag

C2_Witness ==
    /\ Encoded /\ Returned
    /\ args.inside = PyStr(S_id) /\ args.edge = PyStr(S_id)
    /\ Tag = <<"P">>

\* C3: for a symbolic inside and a call that returns, the token is the tag
\* alone when outside is numeric zero and tag/outside otherwise; it has at
\* most two fields, and any other non-symbolic edge gives the same token.
C3_TagAndOutside ==
    (Encoded /\ Returned /\ Symbolic(args.inside)) =>
        /\ Token = (IF NumericZero(args.outside) THEN DocTag
                    ELSE DocTag \o <<"/">> \o Str(args.outside))
        /\ Len(Fields) <= 2
        /\ ~Symbolic(args.edge) =>
              \A e2 \in MaskVals \ SymbolicVals :
                  _alias_option_N(args.outside, e2, args.inside).alias._value
                      = Token

C3_Witness ==
    /\ Encoded /\ Returned
    /\ args.inside = PyStr(S_z) /\ args.edge = PyInt(2)
    /\ args.outside = PyFloat(1)
    /\ Token = <<"z", "/", "1", ".", "0">>

\* C4: when neither edge nor inside is symbolic the call returns the standard
\* Alias, whose token has exactly the three fields outside, edge, inside.
C4_ThreeFields ==
    (Encoded /\ ~Symbolic(args.edge) /\ ~Symbolic(args.inside)) =>
        /\ Returned
        /\ mask.alias.value.t = "list"
        /\ Fields = <<Str(args.outside), Str(args.edge), Str(args.inside)>>

C4_Witness ==
    /\ Encoded
    /\ args.outside = PyInt(0) /\ args.edge = PyInt(0) /\ args.inside = PyInt(1)
    /\ Token = <<"0", "/", "0", "/", "1">>

\* C5: no Alias is returned for a symbolic outside value.
C5_OutsideNeverSymbolic ==
    (Encoded /\ Returned) => ~Symbolic(args.outside)

\* C6: a grdmask call without spacing or without region ends in
\* GMTParameterError with nothing encoded, no session opened and no module
\* called.
C6_RequiredFirst ==
    ((args.spacing = PyNone \/ args.region = PyNone)
        /\ pc \notin {"start", "encoded"}) =>
        /\ pc = "raised"
        /\ outcome = [exc |-> "GMTParameterError", ret |-> "raised"]
        /\ events = <<>>
        /\ mask = NotCalled
        /\ session = "none"
        /\ written = <<>>

C6_Witness ==
    /\ pc = "raised"
    /\ args.spacing = PyNone /\ args.region # PyNone
    /\ outcome.exc = "GMTParameterError"
    /\ events = <<>>

\* C7: a grdmask call that completes returns None iff outgrid is set, the
\* grid then being in the file outgrid names, and a DataArray otherwise.
C7_ReturnByOutgrid ==
    pc = "returned" =>
        /\ outcome.ret = "None" <=> args.outgrid # PyNone
        /\ args.outgrid # PyNone => written = args.outgrid.s
        /\ args.outgrid = PyNone => outcome.ret = "DataArray"

C7_Witness ==
    /\ pc = "returned"
    /\ args.outgrid = PyStr(OutgridName)
    /\ outcome.ret = "None"
    /\ written = OutgridName

\* C9: a string other than "z" and "id" given for edge or inside is never
\* rejected; as inside it is rendered as-is in the three-field form, and as
\* edge next to a symbolic inside it leaves the tag lowercase.
C9_OtherStrings ==
    (Encoded /\ (args.edge \in OtherStrVals \/ args.inside \in OtherStrVals)) =>
        /\ Returned
        /\ ~Symbolic(args.inside) =>
              /\ Len(Fields) = 3
              /\ args.edge \in OtherStrVals => Fields[2] = args.edge.s
              /\ args.inside \in OtherStrVals => Fields[3] = args.inside.s
        /\ Symbolic(args.inside) => Tag \in {<<"z">>, <<"p">>}

C9_Witness ==
    /\ Encoded /\ Returned
    /\ args.edge = PyStr(<<"Z">>) /\ args.inside = PyStr(S_z)
    /\ Token = <<"z">>

\* C10: a symbolic edge next to a non-symbolic inside is not rejected and
\* gives the three-field form with the edge symbol as the second field.
C10_SymbolicEdgeLiteral ==
    (Encoded /\ Symbolic(args.edge) /\ ~Symbolic(args.inside)) =>
        /\ Returned
        /\ mask.alias.value.t = "list"
        /\ Fields = <<Str(args.outside), args.edge.s, Str(args.inside)>>

C10_Witness ==
    /\ Encoded /\ Returned
    /\ args.outside = PyInt(0) /\ args.edge = PyStr(S_z) /\ args.inside = PyInt(1)
    /\ Token = <<"0", "/", "z", "/", "1">>

====
